---- MODULE Spec2Model ----
(***************************************************************************)
(* The audio bridge of solgb_eframe (src/src/audio.rs): the control side   *)
(* (Audio::new, play, pause, set_audio_control, set_volume) and the output *)
(* callback built by Audio::setup, stepped at its shared accesses          *)
(* (try_recv on the hand-off channel, try_get_audio_buffer on the source,  *)
(* the clock read of the refill spin, the volume load), and the part of    *)
(* the application that drives it (src/src/app.rs, src/src/saves.rs): the  *)
(* event queue, the OpenRom handler, the master volume and the periodic    *)
(* save of the save RAM.                                                   *)
(*                                                                         *)
(* Samples are fixed point: the f32 sample s is the integer s * Unit, the  *)
(* scaled sample s * (v / 100) is the integer (s * Unit) * v in units of   *)
(* 1 / (Unit * VolumeScale).  The samples drawn below are dyadic: for the   *)
(* volumes 0, 25, 50, 75 and 100 every f32 operation of the code on them   *)
(* is exact and the integer is the f32 result; for the other volumes the   *)
(* integer is the exact product, which the f32 result rounds.  The u8 code *)
(* computed from it is the code's for every volume (the product times 128  *)
(* is an integer or at least 1/25 away from one).                          *)
(***************************************************************************)
EXTENDS Integers, Sequences, FiniteSets, TLC

\* ------------------------------------------------------------------ bounds
\* Most sources ever published (AudioControl ids are 1..MaxPublish).
MaxPublish == 3
\* Longest output buffer the platform hands to one callback (one stereo frame).
MaxOut == 2
\* Longest output buffer of the single-session specification SpecValues.
MaxOutValues == 4

\* Most events ever pushed to the event queue.
MaxEvents == 3

\* --------------------------------------------------------- program constants
\* const TIMEOUT: Duration = Duration::from_millis(20), in ms.
TIMEOUT == 20
\* if volume > 100 { volume = 100; }
MaxVolume == 100
\* (volume.load(..) as f32) / 100.0
VolumeScale == 100

\* Fixed-point unit of a sample: 1.0 is Unit, 0.5 is Unit \div 2.
Unit == 2 * 2

\* The sample formats of the device configurations modelled (setup::<f32>,
\* setup::<u8>).
Formats == {"F32", "U8"}

\* A SampleFormat none of the arms of setup_stream names.
UnknownFormat == "Unknown"

\* What host.default_output_device() and device.default_output_config() find.
Devices == {"ok", "no_device", "no_config"}

\* The channel counts of the device configurations modelled.
ChannelCounts == {1, 2}

\* The arguments set_volume is called with (a u8).
VolumeArgs == {0, 50, 150}

\* The arguments of set_volume in SpecValues: every u8.
ValueVolumeArgs == 0..255

\* What try_get_audio_buffer can return on success: a chunk of samples.
Chunks == { <<>>,
            <<Unit \div 2, -(Unit \div 2), Unit \div 2, -(Unit \div 2)>>,
            <<Unit, -Unit, 0>> }

\* The chunks of SpecValues.
ValueChunks == Chunks \cup { <<Unit \div 4, -Unit>> }

\* Wall-clock cost, in ms, of one failed try_get_audio_buffer of the spin.
TakeCosts == {0, 10, 11}

\* The ROM files the user opens.  RomInfo::new and GameboyBuilder::build are
\* the solgb crate's: whether the bytes parse, whether the emulator builds
\* and whether the cartridge is battery backed are properties of the file.
RomA == [name |-> "A", valid |-> TRUE, builds |-> TRUE, battery |-> TRUE]
RomB == [name |-> "B", valid |-> TRUE, builds |-> FALSE, battery |-> TRUE]
RomC == [name |-> "C", valid |-> TRUE, builds |-> TRUE, battery |-> FALSE]
RomX == [name |-> "X", valid |-> FALSE, builds |-> FALSE, battery |-> FALSE]
Roms == {RomA, RomB, RomC, RomX}

\* The keys of the local storage: rom_info.get_name().
RomNames == {r.name : r \in Roms}

\* The values of volume.master (a u32) a persisted application state holds.
MasterValues == {0, 50, 100, 150, 256, 300}

\* The values the master slider of display_volume sets (VOLUME_RANGE).
SliderValues == {0, 50, 100}

VARIABLES
    master,         \* self.volume.master
    events,         \* self.events: the OpenRom events not handled yet
    opened,         \* every ROM file pushed as an OpenRom event so far
    gameboy,        \* self.gameboy: << >> or << [name, exram] >>
    save_ram,       \* saves.save_ram: the Arc it holds (0: the one of Saves::new)
    rom_info,       \* saves.rom_info: << >> or << rom >>
    storage,        \* the local storage: per key << >> or << Arc whose bytes >>
    menu_visible,   \* self.menu_visible
    device,         \* outcome of the device and configuration discovery
    channels,       \* self.config.channels()
    app,            \* the application: running, or panicked
    building,       \* play(): the stream setup() has built, not yet assigned
    format,         \* self.config.sample_format()
    stream,         \* self.stream and the platform's state of it
    volume,         \* self.volume (AtomicU8)
    chan,           \* the crossbeam channel ac_sender -> ac_receiver
    audio_control,  \* self.audio_control (0 is None)
    published,      \* number of AudioControls published so far
    cb_audio_control, \* the closure's audio_control (0 is None)
    buffer,         \* the closure's buffer iterator: the samples left
    bufSrc,         \* the source the chunk in buffer was taken from
    last,           \* the closure's last
    lastSrc,        \* the source last was taken from (0: the initial 0f32)
    pc,             \* position of the callback
    out,            \* the callback's out slice
    i,              \* number of positions of out the for loop has passed
    elapsed,        \* Instant::now().duration_since(start) of the spin
    spent,          \* time the spins of this callback that have ended took
    ret,            \* how the callback returned
    recvs,          \* try_recv calls of this callback
    adopted,        \* sources this callback removed from the channel
    tookAny,        \* this callback called try_get_audio_buffer
    feed,           \* the samples the closure held or took for this callback
    held,           \* this callback took an empty chunk and repeated last
    pubSince,       \* a publish on the live stream since the last callback began
    cbNew,          \* the source published last before this callback began
    lastVolArg      \* argument of the most recent set_volume (0: none yet)

session == << master, events, opened, gameboy, save_ram, rom_info, storage,
             menu_visible >>

vars == << master, events, opened, gameboy, save_ram, rom_info, storage,
           menu_visible, device, channels, app, building, format, stream, volume, chan, audio_control, published,
           cb_audio_control, buffer, bufSrc, last, lastSrc,
           pc, out, i, elapsed, spent, ret, recvs, adopted, tookAny,
           feed, held, pubSince, cbNew, lastVolArg >>

config  == << device, channels, app >>
control == << device, channels, app, building, format, stream, volume, chan,
             audio_control, published, lastVolArg >>
closure == << cb_audio_control, buffer, bufSrc, last, lastSrc >>
run     == << pc, out, i, elapsed, spent, ret, recvs, adopted, tookAny, feed, held,
             cbNew >>

\* ---------------------------------------------------------------- helpers
\* A position of out the callback has not written: it holds what the
\* platform's buffer held when the callback was entered.
Stale == <<>>

Running == stream \in {"built", "playing"}

\* `as i8` of an f32: truncation toward zero, saturating.
TruncDiv(n, d) == IF n >= 0 THEN n \div d ELSE -((-n) \div d)

SaturateI8(x) == IF x > 127 THEN 127 ELSE IF x < -128 THEN -128 ELSE x

\* T::from_sample for T = i8 of the f32 x / (Unit * VolumeScale):
\* (s * 128.0) as i8.
FromSampleI8(x) == SaturateI8(TruncDiv(x * 128, Unit * VolumeScale))

\* T::from_sample for T = u8: the i8 code shifted by 128.
FromSampleU8(x) == FromSampleI8(x) + 128

\* T::from_sample for T = f32 is the identity on f32.
FromSampleF32(x) == x

\* Mutant: SampleFormat::U8 dispatched to setup::<i8>().
FromSampleAsI8(f, x) == IF f = "U8" THEN FromSampleI8(x) ELSE FromSampleF32(x)

\* setup_stream: T is chosen by self.config.sample_format().
FromSample(f, x) == IF f = "U8" THEN FromSampleU8(x) ELSE FromSampleF32(x)

\* Mutant: the volume is not applied.
ScaleUnity(s, v) == s * VolumeScale

\* last * volume, with volume = (load as f32) / 100.0
Scale(s, v) == s * v

\* *value = T::from_sample(last * volume)
Written(f, s, v) == <<FromSample(f, Scale(s, v))>>

\* Mutant: the buffer is left as it was.
FillNothing(f, o) == o

\* out.fill(T::from_sample(0.0))
Fill(f, o) == [k \in 1..Len(o) |-> <<FromSample(f, 0)>>]

\* Mutant: the argument is stored unclamped.
ClampNone(v) == v

\* if volume > 100 { volume = 100; }
Clamp(v) == IF v > MaxVolume THEN MaxVolume ELSE v

\* host.default_output_device().unwrap() and
\* device.default_output_config().unwrap() return.
DeviceOk(d) == d = "ok"

\* setup_stream: the sample format has an arm other than panic!.
FormatOk(f) == f \in Formats

\* Mutant: every channel count builds a stream.
ChannelsAny(c) == TRUE

\* setup: match config.channels { 2 => build_output_stream, _ => panic!() }
ChannelsOk(c) == c = 2

\* Audio::new() returns instead of panicking.
Discovered(d, f, c) == DeviceOk(d) /\ FormatOk(f) /\ ChannelsOk(c)

\* ------------------------------------------------------------------- Init
\* Audio::new(): volume 0, an empty channel, no audio_control, and the stream
\* setup_stream built (None when build_output_stream failed).  A failed
\* discovery or an unsupported configuration panics.
Init ==
    /\ device \in Devices
    /\ channels \in ChannelCounts
    /\ format \in Formats \cup {UnknownFormat}
    /\ app = IF Discovered(device, format, channels) THEN "running" ELSE "panicked"
    /\ building = "no"
    /\ stream \in IF Discovered(device, format, channels)
                     THEN {"none", "built"} ELSE {"none"}
    /\ volume = 0
    /\ chan = <<>>
    /\ audio_control = 0
    /\ published = 0
    /\ cb_audio_control = 0
    /\ buffer = <<>>
    /\ bufSrc = 0
    /\ last = 0
    /\ lastSrc = 0
    /\ pc = "idle"
    /\ out = <<>>
    /\ i = 0
    /\ elapsed = 0
    /\ spent = 0
    /\ ret = "none"
    /\ recvs = 0
    /\ adopted = 0
    /\ tookAny = FALSE
    /\ feed = <<>>
    /\ held = FALSE
    /\ pubSince = FALSE
    /\ cbNew = 0
    /\ lastVolArg = 0
    /\ master = MaxVolume
    /\ events = <<>>
    /\ opened = <<>>
    /\ gameboy = <<>>
    /\ save_ram = 0
    /\ rom_info = <<>>
    /\ storage = [n \in RomNames |-> <<>>]
    /\ menu_visible = TRUE

\* ----------------------------------------------------------- control side
\* Mutant: a channel of capacity 1 whose send fails when it is full.
SendBounded(q, ac) == IF Len(q) >= 1 THEN q ELSE Append(q, ac)

\* self.ac_sender.send(audio_control) on the unbounded channel.
Send(q, ac) == Append(q, ac)

\* Audio::set_audio_control(audio_control)
set_audio_control ==
    /\ app = "running"
    /\ building = "no"
    /\ published < MaxPublish
    /\ published' = published + 1
    /\ audio_control' = published + 1
    /\ chan' = Send(chan, published + 1)
    /\ pubSince' = (stream = "playing")
    /\ UNCHANGED << building, format, stream, volume, lastVolArg >>
    /\ UNCHANGED config
    /\ UNCHANGED closure
    /\ UNCHANGED run
    /\ UNCHANGED session

\* Audio::set_volume(volume)
set_volume(v) ==
    /\ app = "running"
    /\ building = "no"
    /\ volume' = Clamp(v)
    /\ lastVolArg' = v
    /\ UNCHANGED << building, format, stream, chan, audio_control, published,
                    pubSince >>
    /\ UNCHANGED config
    /\ UNCHANGED closure
    /\ UNCHANGED run
    /\ UNCHANGED session

\* Mutant: the error of stream.play() or stream.pause() is unwrapped.
UnwrapError(a) == "panicked"

\* log::error!(...) in the else and Err branches of play() and pause(): the
\* application after it.
LogError(a) == a

\* Audio::play(), first half: setup_stream() evaluates self.setup::<T>(), which
\* builds a new stream (None when build_output_stream fails) whose closure
\* holds a clone of ac_receiver, while self.stream still holds the old one.
\* The steps of a callback of the old stream that overlap the call commute
\* with it, so the call is placed between callbacks.
setup_stream(buildOk) ==
    /\ app = "running"
    /\ building = "no"
    /\ pc = "idle"
    /\ building' = IF buildOk THEN "built" ELSE "failed"
    /\ UNCHANGED << format, stream, volume, chan, audio_control, published,
                    lastVolArg, pubSince >>
    /\ UNCHANGED config
    /\ UNCHANGED closure
    /\ UNCHANGED run
    /\ UNCHANGED session

\* Mutant: the rebuilt closure keeps the samples buffered before.
KeepBuffer(b) == b

\* let mut buffer = Vec::new().into_iter(): the buffer of a new closure.
NewBuffer(b) == << >>

\* Mutant: the rebuilt closure gets an atomic of its own, Arc::new(AtomicU8::new(0)).
FreshVolume(v) == 0

\* let volume = self.volume.clone(): the closure shares the atomic of Audio.
SharedVolume(v) == v

\* Audio::play(), second half: the assignment to self.stream drops the old
\* stream; the closure of the new one starts from self.audio_control, an
\* empty buffer and last = 0; then stream.play().
play(playOk) ==
    /\ building # "no"
    /\ pc = "idle"
    /\ building' = "no"
    /\ stream' = IF building = "failed" THEN "none"
                 ELSE IF playOk THEN "playing" ELSE "built"
    /\ cb_audio_control' = audio_control
    /\ buffer' = NewBuffer(buffer)
    /\ bufSrc' = 0
    /\ last' = 0
    /\ lastSrc' = 0
    /\ pubSince' = FALSE
    /\ volume' = SharedVolume(volume)
    /\ app' = IF building = "failed" \/ ~playOk THEN LogError(app) ELSE app
    /\ UNCHANGED << device, channels >>
    /\ UNCHANGED << format, chan, audio_control, published, lastVolArg >>
    /\ UNCHANGED run
    /\ UNCHANGED session

\* Audio::pause()
pause(pauseOk) ==
    /\ app = "running"
    /\ building = "no"
    /\ stream' = IF stream # "none" /\ pauseOk THEN "paused" ELSE stream
    /\ app' = IF stream = "none" \/ ~pauseOk THEN LogError(app) ELSE app
    /\ UNCHANGED << device, channels >>
    /\ UNCHANGED << building, format, volume, chan, audio_control, published,
                    lastVolArg, pubSince >>
    /\ UNCHANGED closure
    /\ UNCHANGED run
    /\ UNCHANGED session

\* ------------------------------------------------------------ application
\* Mutant: `as u8` saturates.
AsU8Saturating(m) == IF m > 255 THEN 255 ELSE m

\* self.volume.master as u8: the low eight bits of the u32.
AsU8(m) == m % 256

\* Mutant: every file parses.
ParsesAny(rom) == TRUE

\* RomInfo::new(&rom) is Ok.
Parses(rom) == rom.valid

\* GameboyBuilder::..build() is Ok.
Builds(rom) == rom.builds

\* TemplateApp::new with a storage: eframe::get_value restores volume.master
\* (audio is #[serde(skip)]: set_volume is not called).  Before the first
\* frame.
restore(m) ==
    /\ app = "running"
    /\ opened = <<>>
    /\ lastVolArg = 0
    /\ master' = m
    /\ UNCHANGED << events, opened, gameboy, save_ram, rom_info, storage,
                    menu_visible >>
    /\ UNCHANGED control
    /\ UNCHANGED closure
    /\ UNCHANGED run
    /\ UNCHANGED pubSince

\* The file dialog of load() delivers a file: events.push(Event::OpenRom(data)).
push(rom) ==
    /\ app = "running"
    /\ Len(opened) < MaxEvents
    /\ events' = Append(events, rom)
    /\ opened' = Append(opened, rom)
    /\ UNCHANGED << master, gameboy, save_ram, rom_info, storage, menu_visible >>
    /\ UNCHANGED control
    /\ UNCHANGED closure
    /\ UNCHANGED run
    /\ UNCHANGED pubSince

\* display_volume: the master slider changed to m;
\* self.audio.set_volume(self.volume.master as u8).
display_volume(m) ==
    /\ app = "running"
    /\ building = "no"
    /\ master' = m
    /\ volume' = Clamp(AsU8(m))
    /\ lastVolArg' = AsU8(m)
    /\ UNCHANGED << events, opened, gameboy, save_ram, rom_info, storage,
                    menu_visible >>
    /\ UNCHANGED config
    /\ UNCHANGED << building, format, stream, chan, audio_control, published,
                    pubSince >>
    /\ UNCHANGED closure
    /\ UNCHANGED run

\* handle_custom_events on Some(Event::OpenRom(rom)), with self.saves Some.
\* A file that does not parse is dropped.  Otherwise setup_saveram puts a new
\* Arc into saves.save_ram; a failed build clears saves.rom_info and returns;
\* a successful one replaces self.audio by Audio::new() (volume 0, an empty
\* channel, stream built or not), forwards the master volume, publishes the
\* session's AudioControl, calls play() (a further build, then stream.play())
\* and replaces self.gameboy.  The old stream is dropped between callbacks.
handle_custom_events(buildOk, playOk) ==
    /\ app = "running"
    /\ building = "no"
    /\ pc = "idle"
    /\ events # <<>>
    /\ events' = Tail(events)
    /\ LET rom == Head(events)
           arc == Len(opened) - Len(events) + 1
       IN  IF ~Parses(rom)
             THEN /\ UNCHANGED << gameboy, save_ram, rom_info, menu_visible >>
                  /\ UNCHANGED << stream, volume, chan, audio_control, published,
                                  lastVolArg, pubSince, app >>
                  /\ UNCHANGED closure
             ELSE IF ~Builds(rom)
               THEN /\ save_ram' = arc
                    /\ rom_info' = << >>
                    /\ UNCHANGED << gameboy, menu_visible >>
                    /\ UNCHANGED << stream, volume, chan, audio_control,
                                    published, lastVolArg, pubSince, app >>
                    /\ UNCHANGED closure
               ELSE /\ save_ram' = arc
                    /\ rom_info' = << rom >>
                    /\ gameboy' = << [name |-> rom.name, exram |-> arc] >>
                    /\ menu_visible' = FALSE
                    /\ volume' = Clamp(AsU8(master))
                    /\ lastVolArg' = AsU8(master)
                    /\ published' = published + 1
                    /\ audio_control' = published + 1
                    /\ chan' = Send(<<>>, published + 1)
                    /\ stream' = IF ~buildOk THEN "none"
                                 ELSE IF playOk THEN "playing" ELSE "built"
                    /\ app' = IF ~buildOk \/ ~playOk THEN LogError(app) ELSE app
                    /\ cb_audio_control' = published + 1
                    /\ buffer' = NewBuffer(buffer)
                    /\ bufSrc' = 0
                    /\ last' = 0
                    /\ lastSrc' = 0
                    /\ pubSince' = FALSE
    /\ UNCHANGED << master, opened, storage >>
    /\ UNCHANGED << device, channels, building, format >>
    /\ UNCHANGED run

\* TemplateApp::update after handle_custom_events: saves.save_current(name of
\* the running gameboy).  due: more than SAVE_INTERVAL since the last save;
\* lockOk: save_ram.try_lock() is Ok.  A rom_info that is Some and not battery
\* backed returns before the write.
save_current(due, lockOk) ==
    /\ app = "running"
    /\ gameboy # << >>
    /\ storage' = IF /\ due
                     /\ ~(rom_info # << >> /\ ~rom_info[1].battery)
                     /\ lockOk
                    THEN [storage EXCEPT ![gameboy[1].name] = << save_ram >>]
                    ELSE storage
    /\ UNCHANGED << master, events, opened, gameboy, save_ram, rom_info,
                    menu_visible >>
    /\ UNCHANGED control
    /\ UNCHANGED closure
    /\ UNCHANGED run
    /\ UNCHANGED pubSince

\* --------------------------------------------------------------- callback
\* The platform invokes the callback with an out slice of n samples.
CallbackEnter(n) ==
    /\ pc = "idle"
    /\ building = "no"
    /\ Running
    /\ pc' = "recv"
    /\ out' = [k \in 1..n |-> Stale]
    /\ i' = 0
    /\ elapsed' = 0
    /\ spent' = 0
    /\ ret' = "none"
    /\ recvs' = 0
    /\ adopted' = 0
    /\ tookAny' = FALSE
    /\ feed' = buffer
    /\ held' = FALSE
    /\ cbNew' = IF pubSince THEN audio_control ELSE 0
    /\ pubSince' = FALSE
    /\ UNCHANGED control
    /\ UNCHANGED closure
    /\ UNCHANGED session

\* Mutant: the callback drains the channel.
RecvAll(q) == <<>>

\* ac_receiver.try_recv(): the channel without what one call removes.
Recv(q) == IF q = <<>> THEN q ELSE Tail(q)

\* Mutant: a received AudioControl is not adopted.
AdoptNone(q, ac) == ac

\* Mutant: the newest pending AudioControl is adopted.
AdoptLatest(q, ac) == IF q = <<>> THEN ac ELSE q[Len(q)]

\* if let Ok(ac) = ac_receiver.try_recv() { audio_control = Some(ac); }
Adopt(q, ac) == IF q = <<>> THEN ac ELSE Head(q)

\* The DecodedFrameBuffer after the adoption step.
AdoptBuffer(q, b) == b

\* try_recv, then the let-else on audio_control: silence and return when None.
CallbackRecv ==
    /\ pc = "recv"
    /\ recvs' = recvs + 1
    /\ adopted' = adopted + (Len(chan) - Len(Recv(chan)))
    /\ chan' = Recv(chan)
    /\ cb_audio_control' = Adopt(chan, cb_audio_control)
    /\ buffer' = AdoptBuffer(chan, buffer)
    /\ IF Adopt(chan, cb_audio_control) = 0
         THEN /\ out' = Fill(format, out)
              /\ pc' = "done"
              /\ ret' = "silence"
         ELSE /\ out' = out
              /\ pc' = "loop"
              /\ ret' = ret
    /\ UNCHANGED << building, format, stream, volume, audio_control, published,
                    lastVolArg, pubSince >>
    /\ UNCHANGED config
    /\ UNCHANGED << bufSrc, last, lastSrc >>
    /\ UNCHANGED << i, elapsed, spent, tookAny, feed, held, cbNew >>
    /\ UNCHANGED session

\* Mutant: the buffer is refilled when one sample is left in it.
ExhaustedEarly(b) == Len(b) <= 1

\* buffer.next() is None: the chunk taken last is used up.
Exhausted(b) == b = <<>>

\* One turn of `for value in out.iter_mut()`: the loop ends, or buffer.next()
\* is Some(val) and the sample is written, or it is None and the spin starts.
CallbackNext ==
    /\ pc = "loop"
    /\ IF i >= Len(out)
         THEN /\ pc' = "done"
              /\ ret' = "full"
              /\ UNCHANGED << buffer, last, lastSrc, out, i, elapsed, spent >>
         ELSE IF ~Exhausted(buffer)
           THEN /\ last' = Head(buffer)
                /\ lastSrc' = bufSrc
                /\ buffer' = Tail(buffer)
                /\ out' = [out EXCEPT ![i + 1] =
                              Written(format, Head(buffer), volume)]
                /\ i' = i + 1
                /\ UNCHANGED << pc, ret, elapsed, spent >>
           ELSE /\ pc' = "spin"
                /\ elapsed' = 0
                /\ spent' = spent
                /\ UNCHANGED << buffer, last, lastSrc, out, i, ret >>
    /\ UNCHANGED control
    /\ UNCHANGED << cb_audio_control, bufSrc >>
    /\ UNCHANGED << recvs, adopted, tookAny, feed, held, cbNew, pubSince >>
    /\ UNCHANGED session

\* The time the spins of this callback that have ended took, once the one
\* that took e ends; every total above TIMEOUT is kept as TIMEOUT + 1.
SpentAfter(t, e) == IF t + e > TIMEOUT THEN TIMEOUT + 1 ELSE t + e

\* Mutant: buffer.next().unwrap_or(0.0).
UnwrapOrSilence(b, l) == IF b # <<>> THEN << Head(b) >> ELSE << 0 >>

\* Mutant: buffer.next().unwrap(), which panics on None (no value).
Unwrap(b, l) == IF b # <<>> THEN << Head(b) >> ELSE << >>

\* buffer.next().unwrap_or(last) on the chunk just taken: the value it
\* returns, as << value >>.
UnwrapOr(b, l) == IF b # <<>> THEN << Head(b) >> ELSE << l >>

\* sample_rec.try_get_audio_buffer() returned Ok(chunk): buffer = chunk,
\* last = buffer.next().unwrap_or(last), and the sample is written.
CallbackTakeOk(chunk) ==
    /\ pc = "spin"
    /\ LET r == UnwrapOr(chunk, last) IN
         IF r = <<>>
           THEN /\ pc' = "panic"
                /\ UNCHANGED << tookAny, bufSrc, last, lastSrc, buffer, out,
                                held, feed, i, elapsed, spent >>
           ELSE /\ tookAny' = TRUE
                /\ bufSrc' = cb_audio_control
                /\ last' = r[1]
                /\ lastSrc' = IF chunk # <<>> THEN cb_audio_control ELSE lastSrc
                /\ buffer' = IF chunk # <<>> THEN Tail(chunk) ELSE <<>>
                /\ out' = [out EXCEPT ![i + 1] = Written(format, r[1], volume)]
                /\ held' = (held \/ chunk = <<>>)
                /\ feed' = feed \o chunk
                /\ i' = i + 1
                /\ spent' = SpentAfter(spent, elapsed)
                /\ elapsed' = 0
                /\ pc' = "loop"
    /\ UNCHANGED control
    /\ UNCHANGED << cb_audio_control >>
    /\ UNCHANGED << ret, recvs, adopted, cbNew, pubSince >>
    /\ UNCHANGED session

\* sample_rec.try_get_audio_buffer() returned Err: d ms have passed.
CallbackTakeErr(d) ==
    /\ pc = "spin"
    /\ tookAny' = TRUE
    /\ elapsed' = elapsed + d
    /\ pc' = "clock"
    /\ UNCHANGED control
    /\ UNCHANGED closure
    /\ UNCHANGED << out, i, spent, ret, recvs, adopted, feed, held, cbNew,
                    pubSince >>
    /\ UNCHANGED session

\* Mutant: Duration::from_secs(20).
TimedOutSecs(e) == e > TIMEOUT * 1000

\* if Instant::now().duration_since(start) > TIMEOUT
TimedOut(e) == e > TIMEOUT

\* What the callback does to out when the spin times out: `return;`.
Underrun(f, o, n) == o

\* The clock check of the spin: return on timeout, else spin again.
CallbackClock ==
    /\ pc = "clock"
    /\ IF TimedOut(elapsed)
         THEN /\ pc' = "done"
              /\ ret' = "underrun"
              /\ out' = Underrun(format, out, i)
         ELSE /\ pc' = "spin"
              /\ ret' = ret
              /\ out' = out
    /\ UNCHANGED control
    /\ UNCHANGED closure
    /\ UNCHANGED << i, elapsed, spent, recvs, adopted, tookAny, feed, held,
                    cbNew, pubSince >>
    /\ UNCHANGED session

\* The callback has returned and the platform takes the buffer.
CallbackExit ==
    /\ pc = "done"
    /\ pc' = "idle"
    /\ out' = <<>>
    /\ i' = 0
    /\ elapsed' = 0
    /\ spent' = 0
    /\ ret' = "none"
    /\ recvs' = 0
    /\ adopted' = 0
    /\ tookAny' = FALSE
    /\ feed' = <<>>
    /\ held' = FALSE
    /\ cbNew' = 0
    /\ UNCHANGED control
    /\ UNCHANGED closure
    /\ UNCHANGED pubSince
    /\ UNCHANGED session

\* ------------------------------------------------------------------- Next
Next ==
    \/ set_audio_control
    \/ \E v \in VolumeArgs : set_volume(v)
    \/ \E b \in BOOLEAN : setup_stream(b)
    \/ \E p \in BOOLEAN : play(p)
    \/ \E p \in BOOLEAN : pause(p)
    \/ \E n \in 0..MaxOut : CallbackEnter(n)
    \/ CallbackRecv
    \/ CallbackNext
    \/ \E c \in Chunks : CallbackTakeOk(c)
    \/ \E d \in TakeCosts : CallbackTakeErr(d)
    \/ CallbackClock
    \/ CallbackExit

Spec == Init /\ [][Next]_vars

\* One emulation session run sequentially: the control side acts between
\* callbacks only and publishes one source; the output buffers are longer and
\* the volumes and samples finer than in Spec.
NextValues ==
    \/ pc = "idle" /\ published = 0 /\ set_audio_control
    \/ pc = "idle" /\ \E v \in ValueVolumeArgs : set_volume(v)
    \/ \E n \in 0..MaxOutValues : CallbackEnter(n)
    \/ CallbackRecv
    \/ CallbackNext
    \/ \E c \in ValueChunks : CallbackTakeOk(c)
    \/ \E d \in TakeCosts : CallbackTakeErr(d)
    \/ CallbackClock
    \/ CallbackExit

SpecValues == Init /\ [][NextValues]_vars

\* A source that always reports not ready (try_get_audio_buffer never returns
\* Ok).  The platform keeps running the callback it has invoked, and the clock
\* of Instant::now() keeps advancing: a take that costs time happens again and
\* again while the spin lasts.
NextStarve ==
    \/ set_audio_control
    \/ \E v \in VolumeArgs : set_volume(v)
    \/ \E b \in BOOLEAN : setup_stream(b)
    \/ \E p \in BOOLEAN : play(p)
    \/ \E p \in BOOLEAN : pause(p)
    \/ \E n \in 0..MaxOut : CallbackEnter(n)
    \/ CallbackRecv
    \/ CallbackNext
    \/ \E d \in TakeCosts : CallbackTakeErr(d)
    \/ CallbackClock
    \/ CallbackExit

SpecStarve ==
    /\ Init
    /\ [][NextStarve]_vars
    /\ WF_vars(CallbackRecv)
    /\ WF_vars(CallbackNext)
    /\ WF_vars(CallbackClock)
    /\ WF_vars(\E d \in TakeCosts : CallbackTakeErr(d))
    /\ SF_vars(\E d \in TakeCosts \ {0} : CallbackTakeErr(d))

\* A source that always returns data immediately (try_get_audio_buffer never
\* returns Err), with the control side running concurrently.
NextReady ==
    \/ set_audio_control
    \/ \E v \in VolumeArgs : set_volume(v)
    \/ \E b \in BOOLEAN : setup_stream(b)
    \/ \E p \in BOOLEAN : play(p)
    \/ \E p \in BOOLEAN : pause(p)
    \/ \E n \in 0..MaxOut : CallbackEnter(n)
    \/ CallbackRecv
    \/ CallbackNext
    \/ \E c \in Chunks : CallbackTakeOk(c)
    \/ CallbackExit

SpecReady == Init /\ [][NextReady]_vars

\* The bridge with output buffers of at most one sample (the hand-off does
\* not depend on the samples written).
NextLive ==
    \/ set_audio_control
    \/ \E v \in VolumeArgs : set_volume(v)
    \/ \E b \in BOOLEAN : setup_stream(b)
    \/ \E p \in BOOLEAN : play(p)
    \/ \E p \in BOOLEAN : pause(p)
    \/ \E n \in 0..1 : CallbackEnter(n)
    \/ CallbackRecv
    \/ CallbackNext
    \/ \E c \in Chunks : CallbackTakeOk(c)
    \/ \E d \in TakeCosts : CallbackTakeErr(d)
    \/ CallbackClock
    \/ CallbackExit

\* The platform runs to its end a callback it has invoked: each step of the
\* closure that can be taken is taken.
SpecLive ==
    /\ Init
    /\ [][NextLive]_vars
    /\ WF_vars(CallbackRecv)
    /\ WF_vars(CallbackNext)
    /\ WF_vars(CallbackClock)
    /\ WF_vars(CallbackExit)

\* The application on its own thread: a persisted state restored, ROM files
\* opened, the master slider moved, the periodic save.
NextApp ==
    \/ \E m \in MasterValues : restore(m)
    \/ \E r \in Roms : push(r)
    \/ \E m \in SliderValues : display_volume(m)
    \/ \E b \in BOOLEAN, p \in BOOLEAN : handle_custom_events(b, p)
    \/ \E d \in BOOLEAN, l \in BOOLEAN : save_current(d, l)

SpecApp == Init /\ [][NextApp]_vars

\* ================================================================== claims
\* The silence value of the target type: 0.0 for f32, the mid-point code for u8.
Silence(f) == IF f = "U8" THEN 128 ELSE 0

InCallback == pc \in {"loop", "spin", "clock", "done"}

\* C1 (as claimed): in the first callback that begins after
\* publish_source(new) on a playing stream, every sample written was taken
\* from new (or is the initial silent last): none comes from another source.
C1_OnlyNewSource ==
    [][(cbNew # 0 /\ i' = i + 1) => lastSrc' \in {0, cbNew}]_vars

\* C2 (as claimed): at every point of the render loop the unconsumed samples
\* of the DecodedFrameBuffer were taken from the currently active source.
C2_BufferOfActiveSource ==
    (InCallback /\ buffer # <<>>) => bufSrc = cb_audio_control

\* C3 (as claimed): when a callback returns on underrun, every position of out
\* it had not written holds the silence value, none what the buffer held when
\* the callback was entered.
C3_UnderrunSilence ==
    (pc = "done" /\ ret = "underrun") =>
        \A k \in 1..Len(out) : k > i => out[k] = <<Silence(format)>>

\* C4: a callback that finds no source (none adopted before, none pending)
\* writes the silence value to every position of out and returns, without a
\* take attempt on any source and without a wait.
C4_NoSourceSilence ==
    (pc \notin {"idle", "recv"} /\ cb_audio_control = 0) =>
        /\ pc = "done"
        /\ ret = "silence"
        /\ \A k \in 1..Len(out) : out[k] = <<Silence(format)>>
        /\ ~tookAny
        /\ elapsed = 0
        /\ i = 0

\* C4 witness: a callback with a full-length buffer returned on the no-source
\* path before anything was published.
C4_Witness ==
    /\ pc = "done"
    /\ cb_audio_control = 0
    /\ published = 0
    /\ Len(out) = MaxOut
    /\ ret = "silence"

\* C5: with a source that is never ready, once more than TIMEOUT has elapsed
\* since the spin began no take attempt begins, the clock check that sees it
\* returns, a timed-out callback spins no more, and every callback invocation
\* returns.
C5_SpinBounded ==
    /\ [](pc = "spin" => elapsed <= TIMEOUT)
    /\ [](ret = "underrun" => (pc = "done" /\ elapsed > TIMEOUT))
    /\ [][(pc = "clock" /\ elapsed > TIMEOUT /\ pc' # pc) =>
              (pc' = "done" /\ ret' = "underrun")]_vars
    /\ (pc = "recv") ~> (pc = "done")

\* C5 witness: a callback returned on underrun after a spin that passed exactly
\* TIMEOUT (which does not time out) and then went beyond it.
C5_Witness ==
    /\ pc = "done"
    /\ ret = "underrun"
    /\ elapsed = TIMEOUT + 10
    /\ tookAny

Min100(v) == IF v < 100 THEN v ELSE 100

\* C6: the stored volume is in 0..100 and is min(v, 100) for the argument v of
\* the most recent set_volume (150 leaves 100), and every sample the render
\* loop writes is scaled by that value.
C6_VolumeClamped ==
    /\ [](/\ volume \in 0..100
          /\ volume = Min100(lastVolArg)
          /\ (lastVolArg = 150 => volume = 100))
    /\ [][i' = i + 1 =>
              out'[i'] = <<FromSample(format, last' * Min100(lastVolArg))>>]_vars

\* C6 witness: after set_volume(150) the render loop wrote the sample 1.0 at
\* unity.
C6_Witness ==
    /\ lastVolArg = 150
    /\ volume = 100
    /\ format = "F32"
    /\ i = 1
    /\ out[1] = <<Unit * 100>>

\* C7: for the f32 format the k-th position written holds the k-th sample of
\* the source times volume / 100 (0 at volume 0, the sample at volume 100),
\* and the chunk [0.5, -0.5, 0.5, -0.5] at volume 50 fills a 4-sample buffer
\* with [0.25, -0.25, 0.25, -0.25] (the source handing over no empty chunk).
C7_FloatScaled ==
    /\ (format = "F32" /\ ~held) =>
           \A k \in 1..i : out[k] = <<feed[k] * volume>>
    /\ (format = "F32" /\ volume = 0) =>
           \A k \in 1..i : out[k] = <<0>>
    /\ (format = "F32" /\ ~held /\ volume = 50 /\ Len(out) = 4 /\ i = 4
            /\ feed = <<Unit \div 2, -(Unit \div 2), Unit \div 2, -(Unit \div 2)>>) =>
           out = << <<(Unit * VolumeScale) \div 4>>, <<-((Unit * VolumeScale) \div 4)>>,
                    <<(Unit * VolumeScale) \div 4>>, <<-((Unit * VolumeScale) \div 4)>> >>

\* C7 witness: the 4-sample callback of the scenario has returned.
C7_Witness ==
    /\ format = "F32"
    /\ ~held
    /\ volume = 50
    /\ pc = "done"
    /\ ret = "full"
    /\ i = 4
    /\ feed = <<Unit \div 2, -(Unit \div 2), Unit \div 2, -(Unit \div 2)>>
    /\ out = << <<100>>, <<-100>>, <<100>>, <<-100>> >>

\* C8: for the u8 format at volume 100 the sample 1.0 is written as 255, -1.0
\* as 0 and 0.0 as 128, and the silence fill writes 128.
C8_U8Codes ==
    /\ (format = "U8" /\ volume = 100 /\ ~held) =>
           \A k \in 1..i : /\ feed[k] = Unit => out[k] = <<255>>
                           /\ feed[k] = -Unit => out[k] = <<0>>
                           /\ feed[k] = 0 => out[k] = <<128>>
    /\ (format = "U8" /\ ret = "silence") =>
           \A k \in 1..Len(out) : out[k] = <<128>>

\* C8 witness: the chunk [1.0, -1.0, 0.0] was written at volume 100 as u8.
C8_Witness ==
    /\ format = "U8"
    /\ volume = 100
    /\ i = 3
    /\ feed = <<Unit, -Unit, 0>>
    /\ out[1] = <<255>> /\ out[2] = <<0>> /\ out[3] = <<128>>

\* C9: a callback calls try_recv once, before it writes any position of out,
\* and removes at most one source from the channel.
C9_OneRecvPerCallback ==
    /\ recvs <= 1
    /\ adopted <= 1
    /\ InCallback => recvs = 1
    /\ pc = "recv" => (recvs = 0 /\ \A k \in 1..Len(out) : out[k] = Stale)
    /\ (\E k \in 1..Len(out) : out[k] # Stale) => recvs = 1

\* C9 witness: a callback adopted one source and left two pending.
C9_Witness ==
    /\ pc = "loop"
    /\ adopted = 1
    /\ Len(chan) = 2

\* C10: set_audio_control can be called in every state of the running
\* application in which the control thread is not inside play(), and each
\* call appends exactly the published source to the channel.
C10_PublishAppends ==
    /\ []((app = "running" /\ building = "no" /\ published < MaxPublish) =>
              ENABLED set_audio_control)
    /\ [][published' # published =>
              /\ published' = published + 1
              /\ audio_control' = published'
              /\ chan' = Append(chan, published')]_vars

\* C10 witness: three sources are pending on a stream that was never built and
\* never ran a callback.
C10_Witness ==
    /\ stream = "none"
    /\ Len(chan) = 3
    /\ cb_audio_control = 0

\* C11: once a later-published source has been the active source of the
\* render loop, no earlier-published source is the active source again: the
\* active source of a built stream never moves back in publication order.
C11_NoEarlierSourceAgain ==
    [][(stream # "none" /\ stream' # "none") =>
          cb_audio_control' >= cb_audio_control]_vars

\* C12: the control operations (set_audio_control, set_volume, play, pause)
\* leave the render loop of a stream that stays registered, with its
\* buffered samples and its last sample, as it was.
C12_StreamPersists ==
    [][(pc = "idle" /\ pc' = "idle" /\ stream # "none" /\ stream' # "none") =>
          (buffer' = buffer /\ last' = last)]_vars

\* C13: when the discovery fails or the configuration is unsupported, the
\* application keeps running while there is no stream.
C13_DiscoveryFailureNotFatal ==
    ~Discovered(device, format, channels) => (app = "running" /\ stream = "none")

\* C14: every step of play() and pause(), failed ones included, leaves the
\* application running and the volume, the last-published source and the
\* channel unchanged, and after it play() can be called again and succeed.
C14_FailedPlayPauseHarmless ==
    /\ [][(building' # building \/ stream' # stream) =>
              (/\ app' = "running"
               /\ volume' = volume
               /\ audio_control' = audio_control
               /\ chan' = chan)]_vars
    /\ []((app = "running" /\ building = "no" /\ pc = "idle") =>
              ENABLED setup_stream(TRUE))
    /\ []((app = "running" /\ building = "built" /\ pc = "idle") =>
              ENABLED (play(TRUE) /\ stream' = "playing"))

\* A play() whose build failed has acted on a published source with a pending
\* channel and a volume set.
C14_Witness ==
    /\ app = "running"
    /\ stream = "none"
    /\ cb_audio_control # 0
    /\ chan # <<>>
    /\ volume # 0

\* C15: the callback never panics: it is in no panic state, it writes inside
\* the output buffer only, and it ends by one of its three returns.
C15_CallbackNeverPanics ==
    /\ pc # "panic"
    /\ app = "running" \/ pc = "idle"
    /\ i <= Len(out)
    /\ pc \in {"spin", "clock"} => i < Len(out)
    /\ pc = "done" => ret \in {"silence", "full", "underrun"}

\* A callback on an output buffer of odd length that took an empty chunk has
\* returned.
C15_Witness == pc = "done" /\ Len(out) = 1 /\ held /\ ret = "full"

\* C16: with a source that is always ready, a take happens only when the
\* buffer is exhausted, and one take ends the exhaustion: the spin is left
\* for the loop with one more sample written.
C16_TakeOnlyWhenExhausted ==
    /\ [](pc = "spin" => buffer = <<>>)
    /\ [][(pc = "spin" /\ pc' # "spin") => (pc' = "loop" /\ i' = i + 1)]_vars

\* After a take the buffer holds unconsumed samples of the chunk.
C16_Witness == pc = "loop" /\ tookAny /\ i = 1 /\ Len(buffer) = 3

\* C17: the two samples of the first stereo frame of a callback are scaled by
\* the same volume.
C17_SameVolumePerFrame ==
    (/\ format = "F32"
     /\ ~held
     /\ i >= 2
     /\ Len(feed) >= 2
     /\ feed[1] # 0
     /\ feed[2] # 0) =>
        out[1][1] * feed[2] = out[2][1] * feed[1]

\* The callback closures that exist and hold a clone of ac_receiver.
LiveClosures ==
    (IF stream # "none" THEN 1 ELSE 0) + (IF building = "built" THEN 1 ELSE 0)

\* C18: at most one callback closure able to receive from the channel exists.
C18_OneRenderLoop == LiveClosures <= 1

\* C19: a stream, built or being built, or a running callback exists only
\* when the configuration has two channels.
C19_StreamOnlyForStereo ==
    (stream # "none" \/ building = "built" \/ pc # "idle") => channels = 2

\* setup() ran on a configuration that is fine but for its channel count and
\* registered no stream.
C19_Witness ==
    /\ DeviceOk(device)
    /\ FormatOk(format)
    /\ channels # 2
    /\ stream = "none"
    /\ app = "panicked"

\* C20: the channel holds the newest publications in publication order, and
\* a callback adopts at most one source, the oldest pending one.
C20_FifoAdoption ==
    /\ [](\A j \in 1..Len(chan) : chan[j] = published - Len(chan) + j)
    /\ [][(adopted' > adopted) =>
              (/\ adopted' = 1
               /\ chan # <<>>
               /\ cb_audio_control' = Head(chan)
               /\ chan' = Tail(chan))]_vars

\* The second of three published sources is active while the third is pending.
C20_Witness ==
    pc = "loop" /\ adopted = 1 /\ cb_audio_control = 2 /\ chan = << 3 >>

\* C21: with one source, no rebuild and no empty chunk, the samples written
\* by a callback are, scaled, the samples the closure held on entry followed
\* by the chunks taken, in order, and the buffer holds exactly the rest.
C21_SamplesInOrder ==
    /\ pc = "recv" => feed = buffer
    /\ (pc \in {"loop", "spin", "clock", "done"} /\ ~held) =>
          /\ i <= Len(feed)
          /\ buffer = SubSeq(feed, i + 1, Len(feed))
          /\ \A k \in 1..i : out[k] = Written(format, feed[k], volume)

\* A callback wrote the sample an earlier callback left in the buffer and then
\* the first two samples of the next chunk.
C21_Witness ==
    /\ pc = "done"
    /\ ret = "full"
    /\ ~held
    /\ i = 3
    /\ feed = << 0, Unit, -Unit, 0 >>
    /\ volume = 50

C24_PlayRebuilds ==
    [][(building = "built" /\ building' = "no") =>
          (/\ stream' # "none"
           /\ cb_audio_control' = audio_control
           /\ audio_control' = audio_control
           /\ buffer' = << >>
           /\ last' = 0
           /\ chan' = chan)]_vars

\* Right after play(): the newest source is active while the channel still
\* holds both publications.
C24_Witness ==
    /\ pc = "idle"
    /\ building = "no"
    /\ stream = "playing"
    /\ cb_audio_control = 2
    /\ chan = << 1, 2 >>
    /\ buffer = << >>
    /\ last = 0

\* C25: the take of an empty chunk writes last, scaled by the volume at that
\* moment, keeps last, leaves the buffer empty (the next sample refills) and
\* is no return; last is 0 while no sample of a source was emitted.
C25_EmptyChunkRepeatsLast ==
    /\ [](lastSrc = 0 => last = 0)
    /\ [][(pc = "spin" /\ pc' = "loop" /\ feed' = feed) =>
              (/\ out' = [out EXCEPT ![i + 1] = Written(format, last, volume)]
               /\ last' = last
               /\ buffer' = << >>
               /\ i' = i + 1
               /\ held'
               /\ ret' = "none")]_vars

\* The first sample of a callback repeats the last sample of the callback
\* before, at volume 50.
C25_Witness ==
    /\ pc = "loop"
    /\ held
    /\ i = 1
    /\ last # 0
    /\ format = "F32"
    /\ volume = 50
    /\ out[1] = << last * 50 >>

\* C26: a take begins only while the time this callback has spent in its
\* spins, the current one included, is within TIMEOUT.
C26_SpinTotalBounded == pc = "spin" => spent + elapsed <= TIMEOUT

\* C27: a step that changes the volume (or is a set_volume) changes nothing of
\* the hand-off, and a step that changes the hand-off or the stream leaves the
\* volume as it is.
C27_VolumeIndependent ==
    /\ [][(volume' # volume \/ lastVolArg' # lastVolArg) =>
              UNCHANGED << chan, audio_control, published, cb_audio_control,
                           buffer, last, stream, building >>]_vars
    /\ [][(\/ chan' # chan
           \/ audio_control' # audio_control
           \/ stream' # stream
           \/ building' # building) => volume' = volume]_vars

\* The volume set before a publish and a rebuild is still there after them.
C27_Witness ==
    /\ volume = 50
    /\ stream = "playing"
    /\ cb_audio_control = 1
    /\ chan = << 1 >>
    /\ pc = "idle"

\* C28: every write of save_current stores, under the name of the running
\* session, the save RAM that session shares.
C28_SaveRamOfRunningSession ==
    [][storage' # storage =>
          (/\ gameboy # << >>
           /\ storage' = [storage EXCEPT
                             ![gameboy[1].name] = << gameboy[1].exram >>])]_vars

\* C29: the step that consumes an OpenRom event whose file does not parse
\* changes nothing but the event queue.
C29_BadRomChangesNothing ==
    [][(events # << >> /\ ~Head(events).valid /\ events' = Tail(events)) =>
          UNCHANGED << gameboy, save_ram, rom_info, menu_visible, storage,
                       master, opened, control, closure, run, pubSince >>]_vars

\* A file that does not parse was consumed while the session of ROM A runs.
C29_Witness ==
    /\ opened = << RomA, RomX >>
    /\ events = << >>
    /\ gameboy # << >>
    /\ gameboy[1].name = "A"
    /\ ~menu_visible

\* C30: while a session runs, the volume of the bridge is min(master, 100).
C30_MasterVolumeApplied == gameboy # << >> => volume = Min100(master)

====
